---- MODULE Spec2Model ----
(***************************************************************************)
(* pgha: the shared node registry (PgHaCtl), its membership operations     *)
(* (addNode, delNode, add_node, del_node, join_node) and the background    *)
(* worker (PgHaMain, PgHaMasterLoop, doHeartbeat), modelled from           *)
(* src/pgha/pgha.c and src/pgha/pgha.h.                                    *)
(***************************************************************************)
EXTENDS Integers, FiniteSets, Sequences, TLC

(* ------------------------------ bounds -------------------------------- *)

\* pgha.max_ha_nodes (pgha_max_nodes): the capacity of PgHaCtl->nodes[].
MaxNodes == 3

\* How far n_nodes may run past MaxNodes before the model stops following it
\* (the code itself has no such limit).
MaxOverrun == 1

\* Cap of a record's retry_count (the code increments without limit).
MaxRetry == 5

\* The number of calls of changeToAsync followed when it is run on its own.
MaxCalls == 1

\* pgha.retry_count, boot value.
pgha_retry_count == 4

\* pgha.node_name, and the names of the peers that join while the loop runs.
pgha_node_name == "self"

PeerNames == {"n1", "n2"}

\* The names SQL callers pass: the worker's, the peers', and one more.
Names == {pgha_node_name} \cup PeerNames \cup {"n3"}

\* The background worker and the backend that runs the SQL functions.
Worker == "w"

Backends == {"b1"}

\* The connection strings whose server may fail to answer a probe.
Unreachable == {"conn_n1"}

Procs == {Worker} \cup Backends

NoProc == "none"

(* ------------------------------- state -------------------------------- *)

VARIABLES
    nodes,       \* PgHaCtl->nodes[0 .. pgha_max_nodes-1]
    n_nodes,     \* PgHaCtl->n_nodes
    lockExcl,    \* the process holding PgHaCtl->lock in LW_EXCLUSIVE mode
    lockShared,  \* the processes holding PgHaCtl->lock in LW_SHARED mode
    spin,        \* spin[i]: the process holding nodes[i].mutex
    InRecovery,  \* the server's recovery status (am_master() is its negation)
    in_syncrep,  \* the worker's flag of that name
    sync_standby_names, \* the server's synchronous_standby_names setting
    alter_ok,    \* changeToAsync: how its execSQL("ALTER SYSTEM ...") ended
    reloads,     \* the SIGHUPs changeToAsync has sent to the postmaster
    call,        \* call[b]: where backend b is inside an SQL function
    wpc,         \* the worker's position in PgHaMain / PgHaMasterLoop
    hb_i,        \* doHeartbeat's loop index i
    hb_ret,      \* doHeartbeat's ret, the result of the last execSQL
    got_sigterm, \* flag set by pgha_sigterm
    got_sighup,  \* flag set by pgha_sighup
    last,        \* history: the registry operation this step ran and how it ended
    sweep,       \* history: the sweep in progress (counters before, probes made)
    actuations   \* history: the number of calls of changeToAsync

regVars == <<nodes, n_nodes>>

lockVars == <<lockExcl, lockShared, spin>>

workerVars == <<wpc, hb_i, hb_ret, got_sigterm, got_sighup>>

histVars == <<sweep, actuations>>

envVars == <<InRecovery, in_syncrep>>

confVars == <<sync_standby_names, alter_ok, reloads>>

vars == <<nodes, n_nodes, lockExcl, lockShared, spin, InRecovery, in_syncrep,
          sync_standby_names, alter_ok, reloads,
          call, wpc, hb_i, hb_ret, got_sigterm, got_sighup,
          last, sweep, actuations>>

(* --------------------------- the registry ----------------------------- *)

Slots == 0 .. (MaxNodes - 1)

\* #define am_master() (!InRecovery)
am_master == ~InRecovery

\* The connection string registered with a name (callers pass one per name).
ConnInfoOf(name) == IF name = pgha_node_name THEN "conn_self" ELSE "conn_" \o name

\* A PgHaNode after memset(.., 0, ..) or as the zeroed shared memory holds it
\* once pgha_shmem_startup has cleared in_use.
ZeroNode ==
    [name |-> "", conninfo |-> "", type |-> "", in_use |-> FALSE,
     myself |-> FALSE, is_sync |-> FALSE, retry_count |-> 0]

\* What a read of a PgHaNode outside nodes[] may find: memory that does not
\* belong to the registry, all zero or with a nonzero in_use byte and a name
\* no caller uses.
JunkNode ==
    [name |-> "junk", conninfo |-> "conn_junk", type |-> "", in_use |-> TRUE,
     myself |-> FALSE, is_sync |-> FALSE, retry_count |-> 0]

Garbage == {ZeroNode, JunkNode}

InBounds(k) == k \in Slots

\* The values a read of PgHaCtl->nodes[k] can yield.
ReadSlot(nds, k) == IF InBounds(k) THEN {nds[k]} ELSE Garbage

\* A store to PgHaCtl->nodes[k]; outside the array it does not reach a slot.
WriteSlot(nds, k, rec) == IF InBounds(k) THEN [nds EXCEPT ![k] = rec] ELSE nds

\* A faulty variant of Matches, for comparison: the scan stops at n_nodes
\* instead of pgha_max_nodes.
MatchesBelowCount(nds, name) ==
    {i \in Slots : i < n_nodes /\ nds[i].in_use /\ nds[i].name = name}

\* for (i = 0; i < pgha_max_nodes; i++)
\*     if (node->in_use && strcmp(node->name, name) == 0)
Matches(nds, name) == {i \in Slots : nds[i].in_use /\ nds[i].name = name}

\* The first slot the scan of delNode stops at.
FirstMatch(nds, name) ==
    CHOOSE i \in Matches(nds, name) : \A j \in Matches(nds, name) : i <= j

\* The index addNode stores the new record at.
AddIndex(n) == n

\* The record addNode builds.
NewNode(name, conninfo, myself) ==
    [name |-> name, conninfo |-> conninfo,
     type |-> IF am_master THEN "m" ELSE "s",
     in_use |-> TRUE, myself |-> myself, is_sync |-> FALSE, retry_count |-> 0]

\* The index delNode copies the "tail" record from and then zeroes.
DelSource(n) == n

\* memcpy(node, &nodes[n_nodes]); memset(&nodes[n_nodes], 0): the array after
\* delNode has found slot i, when the read of nodes[n_nodes] yields tail.
Compact(nds, i, n, tail) == WriteSlot(WriteSlot(nds, i, tail), DelSource(n), ZeroNode)

\* A faulty variant of CanLockExclusive, for comparison: shared holders do
\* not keep a writer out.
CanLockExclusiveOverReaders == lockExcl = NoProc

\* LWLockAcquire(PgHaCtl->lock, LW_EXCLUSIVE) can return.
CanLockExclusive == lockExcl = NoProc /\ lockShared = {}

\* LWLockAcquire(PgHaCtl->lock, LW_SHARED) can return.
CanLockShared == lockExcl = NoProc

\* The model follows n_nodes only this far past the end of the array.
Followed(n) == n <= MaxNodes + MaxOverrun

InUseSlots == {i \in Slots : nodes[i].in_use}

InUseNames == {nodes[i].name : i \in InUseSlots}

(* ------------------------------ Init ---------------------------------- *)

\* No registry operation ran in this step.
NoOp == [op |-> "none", res |-> "none"]

NoSweep == [active |-> FALSE, before |-> <<>>, probed |-> <<>>]

Init ==
    /\ nodes = [i \in Slots |-> ZeroNode]
    /\ n_nodes = 0
    /\ lockExcl = NoProc
    /\ lockShared = {}
    /\ spin = [i \in Slots |-> NoProc]
    /\ InRecovery \in BOOLEAN
    /\ in_syncrep = FALSE
    /\ sync_standby_names = "n1"
    /\ alter_ok = "none"
    /\ reloads = 0
    /\ call = [b \in Backends |-> [pc |-> "idle", name |-> ""]]
    /\ wpc = "main"
    /\ hb_i = 0
    /\ hb_ret = FALSE
    /\ got_sigterm = FALSE
    /\ got_sighup = FALSE
    /\ last = NoOp
    /\ sweep = NoSweep
    /\ actuations = 0

(* ------------------------ membership operations ----------------------- *)

\* A faulty variant of addNode, for comparison: the tolerated duplicate does
\* not return and falls through to the insert.
addNodeFallsThrough(p, name, conninfo, myself, dup_ok) ==
    /\ CanLockExclusive
    /\ IF Matches(nodes, name) # {} /\ ~dup_ok
       THEN /\ UNCHANGED <<nodes, n_nodes>>
            /\ lockExcl' = NoProc
       ELSE /\ Followed(n_nodes + 1)
            /\ nodes' = WriteSlot(nodes, AddIndex(n_nodes), NewNode(name, conninfo, myself))
            /\ n_nodes' = n_nodes + 1
            /\ lockExcl' = NoProc
    /\ UNCHANGED <<lockShared, spin>>

\* addNode(name, conninfo, myself, dup_ok) run by process p.  The three ways
\* out: ereport(ERROR) on a duplicate (the error unwinds to the caller's
\* handler, whose cleanup releases every LWLock held), "return true" on a
\* tolerated duplicate (no LWLockRelease on that path), and the insert.
addNode(p, name, conninfo, myself, dup_ok) ==
    /\ CanLockExclusive
    /\ IF Matches(nodes, name) # {}
       THEN /\ UNCHANGED <<nodes, n_nodes>>
            /\ lockExcl' = IF dup_ok THEN p ELSE NoProc
       ELSE /\ Followed(n_nodes + 1)
            /\ nodes' = WriteSlot(nodes, AddIndex(n_nodes), NewNode(name, conninfo, myself))
            /\ n_nodes' = n_nodes + 1
            /\ lockExcl' = NoProc
    /\ UNCHANGED <<lockShared, spin>>

\* What addNode hands back, decided on the state it was called in.
addNodeResult(name, dup_ok) ==
    IF Matches(nodes, name) = {} THEN "inserted"
    ELSE IF dup_ok THEN "duplicate_ok" ELSE "DuplicateNode"

\* A faulty variant of DelFound, for comparison: the flag starts out true.
DelFoundAlways(nds, name) == TRUE

\* delNode's flag "found" after its scan.
DelFound(nds, name) == Matches(nds, name) # {}

\* delNode's pointer "node" after its scan: the first match, or the last slot
\* scanned when nothing matched.
DelTarget(nds, name) ==
    IF Matches(nds, name) # {} THEN FirstMatch(nds, name) ELSE MaxNodes - 1

\* delNode(name): ereport(ERROR) when the name is not found (the lines after
\* it are not reached; the error cleanup releases the lock), else the
\* compaction and the decrement.
delNode(name) ==
    /\ CanLockExclusive
    /\ IF ~DelFound(nodes, name)
       THEN UNCHANGED <<nodes, n_nodes>>
       ELSE /\ \E tail \in ReadSlot(nodes, DelSource(n_nodes)) :
                   nodes' = Compact(nodes, DelTarget(nodes, name), n_nodes, tail)
            /\ n_nodes' = n_nodes - 1
    /\ UNCHANGED <<lockExcl, lockShared, spin>>

delNodeResult(name) ==
    IF DelFound(nodes, name) THEN "removed" ELSE "NodeNotFound"

\* SQL function add_node(name, conninfo) called in backend b.
add_node(b, name) ==
    /\ call[b].pc = "idle"
    /\ addNode(b, name, ConnInfoOf(name), FALSE, FALSE)
    /\ last' = [op |-> "add_node", res |-> addNodeResult(name, FALSE)]
    /\ UNCHANGED <<envVars, confVars, call, workerVars, sweep, actuations>>

\* SQL function del_node(name) called in backend b.
del_node(b, name) ==
    /\ call[b].pc = "idle"
    /\ delNode(name)
    /\ last' = [op |-> "del_node", res |-> delNodeResult(name)]
    /\ UNCHANGED <<envVars, confVars, call, workerVars, sweep, actuations>>

\* SQL function join_node(name, conninfo) in backend b, up to the return of
\* its addNode(.., dup_ok = true).  On a standby it raises an error first.
join_node_add(b, name) ==
    /\ call[b].pc = "idle"
    /\ IF ~am_master
       THEN /\ last' = [op |-> "join_node", res |-> "not_master"]
            /\ UNCHANGED <<nodes, n_nodes, lockVars, call>>
       ELSE /\ addNode(b, name, ConnInfoOf(name), FALSE, TRUE)
            /\ last' = [op |-> "join_node",
                        res |-> addNodeResult(name, TRUE)]
            /\ call' = [call EXCEPT ![b] = [pc |-> "join_list", name |-> name]]
    /\ UNCHANGED <<envVars, confVars, workerVars, sweep, actuations>>

\* The rows join_node puts into its tuplestore: (name, conninfo) of every
\* in-use record.
join_rows == {<<nodes[i].name, nodes[i].conninfo>> : i \in InUseSlots}

\* The rest of join_node: LWLockAcquire(LW_SHARED), one row per in-use
\* record, LWLockRelease.
join_node_list(b) ==
    /\ call[b].pc = "join_list"
    /\ CanLockShared
    /\ call' = [call EXCEPT ![b] = [pc |-> "idle", name |-> ""]]
    /\ last' = [op |-> "join_node", res |-> "listed"]
    /\ UNCHANGED <<regVars, lockVars, envVars, confVars, workerVars,
                   sweep, actuations>>

(* --------------------------- the worker ------------------------------- *)

Exited == {"exit_true", "exit_false", "exit_error"}

\* PgHaMain: addNode(pgha_node_name, pgha_my_conninfo, true, false), then the
\* loop of the server's role.  An ERROR raised in a background worker ends
\* the worker; PgHaStandbyLoop only returns true, and proc_exit follows.
PgHaMain ==
    /\ wpc = "main"
    /\ addNode(Worker, pgha_node_name, ConnInfoOf(pgha_node_name), TRUE, FALSE)
    /\ last' = [op |-> "PgHaMain",
                res |-> addNodeResult(pgha_node_name, FALSE)]
    /\ wpc' = IF addNodeResult(pgha_node_name, FALSE) = "DuplicateNode" THEN "exit_error"
              ELSE IF am_master THEN "loop" ELSE "exit_true"
    /\ UNCHANGED <<envVars, confVars, call, hb_i, hb_ret, got_sigterm,
                   got_sighup, sweep, actuations>>

\* pgha_sigterm
pgha_sigterm ==
    /\ wpc \notin Exited
    /\ ~got_sigterm
    /\ got_sigterm' = TRUE
    /\ last' = NoOp
    /\ UNCHANGED <<regVars, lockVars, envVars, confVars, call, wpc, hb_i,
                   hb_ret, got_sighup, histVars>>

\* pgha_sighup
pgha_sighup ==
    /\ wpc \notin Exited
    /\ ~got_sighup
    /\ got_sighup' = TRUE
    /\ last' = NoOp
    /\ UNCHANGED <<regVars, lockVars, envVars, confVars, call, wpc, hb_i,
                   hb_ret, got_sigterm, histVars>>

\* while (!got_sigterm) ... return true
LoopTest ==
    /\ wpc = "loop"
    /\ wpc' = IF got_sigterm THEN "exit_true" ELSE "wait"
    /\ last' = NoOp
    /\ UNCHANGED <<regVars, lockVars, envVars, confVars, call, hb_i,
                   hb_ret, got_sigterm, got_sighup, histVars>>

\* A faulty variant of WaitLatch, for comparison: the SIGHUP branch comes
\* before the emergency bailout.
WaitLatchReloadsFirst ==
    /\ wpc = "wait"
    /\ \E death \in BOOLEAN : wpc' = IF death THEN "exit_false" ELSE "count"
    /\ got_sighup' = FALSE
    /\ last' = NoOp
    /\ UNCHANGED <<regVars, lockVars, envVars, confVars, call, hb_i,
                   hb_ret, got_sigterm, histVars>>

\* WaitLatch returns (timeout, latch set or postmaster death), ResetLatch,
\* the emergency bailout, and the SIGHUP branch (ProcessConfigFile).
WaitLatch ==
    /\ wpc = "wait"
    /\ \E death \in BOOLEAN :
          IF death
          THEN wpc' = "exit_false" /\ UNCHANGED got_sighup
          ELSE wpc' = "count" /\ got_sighup' = FALSE
    /\ last' = NoOp
    /\ UNCHANGED <<regVars, lockVars, envVars, confVars, call, hb_i,
                   hb_ret, got_sigterm, histVars>>

\* A faulty variant of get_hanode_count, for comparison: the test is
\* n_nodes > 0.
get_hanode_count_any ==
    /\ wpc = "count"
    /\ CanLockShared
    /\ wpc' = IF n_nodes > 0 THEN "hb_acquire" ELSE "loop"
    /\ last' = NoOp
    /\ UNCHANGED <<regVars, lockVars, envVars, confVars, call, hb_i,
                   hb_ret, got_sigterm, got_sighup, histVars>>

\* n_nodes = get_hanode_count(); if (n_nodes > 1)
get_hanode_count ==
    /\ wpc = "count"
    /\ CanLockShared
    /\ wpc' = IF n_nodes > 1 THEN "hb_acquire" ELSE "loop"
    /\ last' = NoOp
    /\ UNCHANGED <<regVars, lockVars, envVars, confVars, call, hb_i,
                   hb_ret, got_sigterm, got_sighup, histVars>>

\* doHeartbeat: LWLockAcquire(PgHaCtl->lock, LW_SHARED); i = 0
HbAcquire ==
    /\ wpc = "hb_acquire"
    /\ CanLockShared
    /\ lockShared' = lockShared \cup {Worker}
    /\ hb_i' = 0
    /\ sweep' = [active |-> TRUE,
                 before |-> [i \in Slots |-> nodes[i].retry_count],
                 probed |-> <<>>]
    /\ wpc' = "hb_scan"
    /\ last' = NoOp
    /\ UNCHANGED <<regVars, lockExcl, spin, envVars, confVars, call, hb_ret,
                   got_sigterm, got_sighup, actuations>>

\* The "continue" tests of doHeartbeat's loop body.
HbSkips(node) ==
    \/ ~node.in_use
    \/ node.myself
    \/ (~am_master /\ node.type = "s")

\* One iteration that takes a "continue".
HbSkip ==
    /\ wpc = "hb_scan"
    /\ hb_i < MaxNodes
    /\ HbSkips(nodes[hb_i])
    /\ hb_i' = hb_i + 1
    /\ last' = NoOp
    /\ UNCHANGED <<regVars, lockVars, envVars, confVars, call, wpc, hb_ret,
                   got_sigterm, got_sighup, histVars>>

\* ret = execSQL(node->conninfo, "SELECT 1"): the peer answers or does not.
HbProbe ==
    /\ wpc = "hb_scan"
    /\ hb_i < MaxNodes
    /\ ~HbSkips(nodes[hb_i])
    /\ \E ret \in BOOLEAN :
          /\ ret \/ nodes[hb_i].conninfo \in Unreachable
          /\ ret \/ nodes[hb_i].retry_count < MaxRetry
          /\ hb_ret' = ret
          /\ sweep' = [sweep EXCEPT !.probed = Append(@, <<hb_i, ret>>)]
    /\ wpc' = "hb_spin"
    /\ last' = NoOp
    /\ UNCHANGED <<regVars, lockVars, envVars, confVars, call, hb_i,
                   got_sigterm, got_sighup, actuations>>

\* SpinLockAcquire(&node->mutex)
HbSpinAcquire ==
    /\ wpc = "hb_spin"
    /\ spin[hb_i] = NoProc
    /\ spin' = [spin EXCEPT ![hb_i] = Worker]
    /\ wpc' = "hb_update"
    /\ last' = NoOp
    /\ UNCHANGED <<regVars, lockExcl, lockShared, envVars, confVars, call,
                   hb_i, hb_ret, got_sigterm, got_sighup, histVars>>

\* A faulty variant of Counted, for comparison: a successful probe leaves the
\* counter alone.
CountedNoReset(count, ret) == IF ret THEN count ELSE count + 1

\* if (!ret) node->retry_count++; else node->retry_count = 0;
Counted(count, ret) == IF ret THEN 0 ELSE count + 1

\* A faulty variant of HbUpdate, for comparison: no SpinLockRelease.
HbUpdateKeepsSpin ==
    /\ wpc = "hb_update"
    /\ nodes' = [nodes EXCEPT ![hb_i].retry_count = Counted(@, hb_ret)]
    /\ hb_i' = hb_i + 1
    /\ hb_ret' = FALSE
    /\ wpc' = "hb_scan"
    /\ last' = NoOp
    /\ UNCHANGED <<n_nodes, lockVars, envVars, confVars, call,
                   got_sigterm, got_sighup, histVars>>

\* The counter update, SpinLockRelease, and i++ (ret goes out of scope).
HbUpdate ==
    /\ wpc = "hb_update"
    /\ nodes' = [nodes EXCEPT ![hb_i].retry_count = Counted(@, hb_ret)]
    /\ spin' = [spin EXCEPT ![hb_i] = NoProc]
    /\ hb_i' = hb_i + 1
    /\ hb_ret' = FALSE
    /\ wpc' = "hb_scan"
    /\ last' = NoOp
    /\ UNCHANGED <<n_nodes, lockExcl, lockShared, envVars, confVars, call,
                   got_sigterm, got_sighup, histVars>>

\* The loop's test i < pgha_max_nodes fails: the sweep is over (i goes out of
\* scope).
HbLoopEnd ==
    /\ wpc = "hb_scan"
    /\ hb_i >= MaxNodes
    /\ hb_i' = 0
    /\ sweep' = [sweep EXCEPT !.active = FALSE]
    /\ wpc' = "hb_release"
    /\ last' = NoOp
    /\ UNCHANGED <<regVars, lockVars, envVars, confVars, call,
                   hb_ret, got_sigterm, got_sighup, actuations>>

\* LWLockRelease(PgHaCtl->lock), back in PgHaMasterLoop.
HbRelease ==
    /\ wpc = "hb_release"
    /\ lockShared' = lockShared \ {Worker}
    /\ sweep' = NoSweep
    /\ wpc' = "check"
    /\ last' = NoOp
    /\ UNCHANGED <<regVars, lockExcl, spin, envVars, confVars, call, hb_i,
                   hb_ret, got_sigterm, got_sighup, actuations>>

\* checkClusterStatus(): "return true".
checkClusterStatus == TRUE

\* The call of changeToAsync (its ereport(LOG)); its two steps follow.
changeToAsync ==
    /\ actuations' = actuations + 1
    /\ wpc' = "async_alter"
    /\ UNCHANGED confVars

\* A faulty variant of AsyncAlter, for comparison: a failed ALTER SYSTEM is
\* not raised as an error.
AsyncAlterGoesOn ==
    /\ wpc = "async_alter"
    /\ \E ok \in BOOLEAN : alter_ok' = IF ok THEN "ok" ELSE "failed"
    /\ wpc' = "async_kill"
    /\ last' = NoOp
    /\ UNCHANGED <<regVars, lockVars, envVars, sync_standby_names, reloads, call,
                   hb_i, hb_ret, got_sigterm, got_sighup, histVars>>

\* changeToAsync, first step: execSQL(pgha_my_conninfo, "ALTER SYSTEM SET
\* synchronous_standby_names TO ''"); on failure ereport(ERROR), which ends
\* the worker.
AsyncAlter ==
    /\ wpc = "async_alter"
    /\ \E ok \in BOOLEAN :
          /\ alter_ok' = IF ok THEN "ok" ELSE "failed"
          /\ wpc' = IF ok THEN "async_kill" ELSE "exit_error"
    /\ last' = NoOp
    /\ UNCHANGED <<regVars, lockVars, envVars, sync_standby_names, reloads, call,
                   hb_i, hb_ret, got_sigterm, got_sighup, histVars>>

\* changeToAsync, second step: kill(PostmasterPid, SIGHUP); on failure
\* ereport(ERROR).  A delivered SIGHUP makes the postmaster reload, and the
\* cleared list takes effect; changeToAsync returns.
AsyncKill ==
    /\ wpc = "async_kill"
    /\ \E sent \in BOOLEAN :
          IF sent
          THEN /\ reloads' = reloads + 1
               /\ sync_standby_names' = ""
               /\ alter_ok' = "none"
               /\ wpc' = "loop"
          ELSE /\ wpc' = "exit_error"
               /\ UNCHANGED confVars
    /\ last' = NoOp
    /\ UNCHANGED <<regVars, lockVars, envVars, call, hb_i, hb_ret, got_sigterm,
                   got_sighup, histVars>>

\* if (in_syncrep && !checkClusterStatus()) changeToAsync();
CheckStatus ==
    /\ wpc = "check"
    /\ IF in_syncrep /\ ~checkClusterStatus
       THEN changeToAsync
       ELSE wpc' = "loop" /\ UNCHANGED <<actuations, confVars>>
    /\ last' = NoOp
    /\ UNCHANGED <<regVars, lockVars, envVars, call, hb_i, hb_ret,
                   got_sigterm, got_sighup, sweep>>

(* --------------------------- specification ---------------------------- *)

Next ==
    \/ \E b \in Backends, nm \in PeerNames : add_node(b, nm)
    \/ \E b \in Backends, nm \in PeerNames : del_node(b, nm)
    \/ \E b \in Backends, nm \in PeerNames : join_node_add(b, nm)
    \/ \E b \in Backends : join_node_list(b)
    \/ PgHaMain
    \/ pgha_sigterm
    \/ pgha_sighup
    \/ LoopTest
    \/ WaitLatch
    \/ get_hanode_count
    \/ HbAcquire
    \/ HbSkip
    \/ HbProbe
    \/ HbSpinAcquire
    \/ HbUpdate
    \/ HbLoopEnd
    \/ HbRelease
    \/ CheckStatus

Spec == Init /\ [][Next]_vars

\* The steps of the worker process.
WorkerNext ==
    \/ PgHaMain
    \/ LoopTest
    \/ WaitLatch
    \/ get_hanode_count
    \/ HbAcquire
    \/ HbSkip
    \/ HbProbe
    \/ HbSpinAcquire
    \/ HbUpdate
    \/ HbLoopEnd
    \/ HbRelease
    \/ CheckStatus

\* Fair scheduling of the worker: it is a process of its own, WaitLatch
\* returns at the latest on its timeout, every execSQL returns, and a lock
\* that stays free is granted.  Nothing is assumed of the backends.
SpecLive == Init /\ [][Next]_vars /\ WF_vars(WorkerNext)

\* changeToAsync on its own.  No behaviour of Spec calls it (in_syncrep is
\* never set and checkClusterStatus returns true), so its steps are not part
\* of Next; here the worker's cycle may take the guard at the evaluation
\* point as passed and make the call, at most MaxCalls times.
ActuatorCall ==
    /\ wpc = "check"
    /\ actuations < MaxCalls
    /\ changeToAsync
    /\ last' = NoOp
    /\ UNCHANGED <<regVars, lockVars, envVars, call, hb_i, hb_ret,
                   got_sigterm, got_sighup, sweep>>

NextActuator ==
    \/ Next
    \/ ActuatorCall
    \/ AsyncAlter
    \/ AsyncKill

SpecActuator == Init /\ [][NextActuator]_vars

\* The membership operations alone: the worker registers itself and then
\* stays in its wait.
NextRegistry ==
    \/ \E b \in Backends, nm \in Names : add_node(b, nm)
    \/ \E b \in Backends, nm \in Names : del_node(b, nm)
    \/ \E b \in Backends, nm \in Names : join_node_add(b, nm)
    \/ \E b \in Backends : join_node_list(b)
    \/ PgHaMain

SpecRegistry == Init /\ [][NextRegistry]_vars

\* The membership operations while n_nodes stays below pgha_max_nodes, so
\* that every slot addNode and delNode touch lies inside nodes[].
NextInBounds == NextRegistry /\ n_nodes' < MaxNodes

SpecInBounds == Init /\ [][NextInBounds]_vars

(* ------------------------------ claims -------------------------------- *)

\* Some in-use record carries this name.
NameInUse(nm) == \E i \in Slots : nodes[i].in_use /\ nodes[i].name = nm

\* A step of an SQL-level insert or remove, by any backend.
InsertStep(nm) == \E b \in Backends : add_node(b, nm)

RemoveStep(nm) == \E b \in Backends : del_node(b, nm)

TolerantInsertStep(nm) == \E b \in Backends : join_node_add(b, nm)

RegistryUnchanged == nodes' = nodes /\ n_nodes' = n_nodes

\* C1: after any sequence of inserts and removes from the empty registry,
\* n_nodes equals the number of slots whose in_use flag is true.
C1_CountEqualsInUse == n_nodes = Cardinality(InUseSlots)

\* C2: the registry refines a set of names: an insert of nm adds exactly nm to
\* the set of in-use names (or leaves the set alone when nm is in it), a
\* remove of nm takes exactly nm out of it, and nothing else changes the set.
C2_RefinesNameSet ==
    [][\A nm \in Names :
          /\ (InsertStep(nm) \/ TolerantInsertStep(nm) \/ (PgHaMain /\ nm = pgha_node_name))
                 => InUseNames' = InUseNames \cup (IF am_master \/ ~TolerantInsertStep(nm)
                                                   THEN {nm} ELSE {})
          /\ RemoveStep(nm) => InUseNames' = InUseNames \ {nm}]_vars

C4_CountWithinCapacity == n_nodes <= MaxNodes

\* C5: add_node (dup_ok = false) of a name that an in-use record carries
\* reports the duplicate-node error and leaves every slot and n_nodes as they
\* were.
C5_DuplicateRejected ==
    [][\A nm \in Names :
          (InsertStep(nm) /\ NameInUse(nm))
              => (RegistryUnchanged /\ last'.res = "DuplicateNode")]_vars

\* C5 witness: an add_node has just been refused as a duplicate.
C5_Witness == last = [op |-> "add_node", res |-> "DuplicateNode"]

C7_RemoveAbsentRejected ==
    [][\A nm \in Names :
          (RemoveStep(nm) /\ ~NameInUse(nm))
              => (RegistryUnchanged /\ last'.res = "NodeNotFound")]_vars

\* C7 witness: a del_node has just failed with node-not-found while the
\* registry holds other records.
C7_Witness ==
    /\ last = [op |-> "del_node", res |-> "NodeNotFound"]
    /\ InUseSlots # {}

\* doHeartbeat's loop is over and the registry lock not yet released.
SweepDone == wpc = "hb_release"

\* The positions in the sweep's record of probes that belong to slot i.
ProbesOf(i) == {k \in 1 .. Len(sweep.probed) : sweep.probed[k][1] = i}

\* The records a sweep has to probe: in use, not the self record, and, for a
\* process on a standby, not a standby's record.
ShouldProbe(i) ==
    /\ nodes[i].in_use
    /\ ~nodes[i].myself
    /\ ~(InRecovery /\ nodes[i].type = "s")

\* C8: one sweep probes every in-use non-self record exactly once (a process
\* on a standby skips standby records), whatever the other probes returned;
\* afterwards a probed record's retry_count is 0 if its probe succeeded and
\* its previous value plus 1 if it failed; the retry_count of the self
\* record, of skipped records and of free slots is unchanged.
C8_SweepCountsProbes ==
    SweepDone =>
        \A i \in Slots :
            IF ShouldProbe(i)
            THEN \E k \in 1 .. Len(sweep.probed) :
                    /\ ProbesOf(i) = {k}
                    /\ nodes[i].retry_count =
                           IF sweep.probed[k][2] THEN 0 ELSE sweep.before[i] + 1
            ELSE /\ ProbesOf(i) = {}
                 /\ nodes[i].retry_count = sweep.before[i]

\* C8 witness: a finished sweep, with the self record present, that probed
\* two peers: one answered, the other did not and had failed before.
C8_Witness ==
    /\ SweepDone
    /\ \E i \in Slots, j \in Slots :
          /\ i # j
          /\ \E k \in ProbesOf(i) : sweep.probed[k][2]
          /\ \E k \in ProbesOf(j) : ~sweep.probed[k][2] /\ sweep.before[j] > 0
    /\ \E i \in Slots : nodes[i].in_use /\ nodes[i].myself

\* C9: the evaluator reports degraded (checkClusterStatus returns false)
\* exactly when some tracked peer's retry_count is greater than
\* pgha_retry_count.
C9_DegradedIffOverThreshold ==
    (~checkClusterStatus) <=>
        (\E i \in Slots :
            nodes[i].in_use /\ ~nodes[i].myself /\ nodes[i].retry_count > pgha_retry_count)

\* The registry holds the self record and the one standby n1, and nothing else.
SelfPlusOneStandby ==
    /\ InUseNames = {pgha_node_name, "n1"}
    /\ \A i \in InUseSlots : nodes[i].myself <=> nodes[i].name = pgha_node_name

\* C10: on a primary that started out synchronous (synchronous_standby_names
\* set), with the registry self plus one standby and pgha_retry_count = 4:
\* once the standby's probe has failed in 5 or more consecutive cycles and the
\* cycle is over, changeToAsync has been called exactly once.
C10_ActuatedExactlyOnce ==
    (/\ am_master
     /\ wpc = "loop"
     /\ SelfPlusOneStandby
     /\ \E i \in InUseSlots : nodes[i].name = "n1" /\ nodes[i].retry_count > pgha_retry_count)
        => actuations = 1

\* The step in which a join_node call for nm builds and returns its rows.
ListStep(nm) == \E b \in Backends : join_node_list(b) /\ call[b].name = nm

\* C11: join_node called on the primary with a name not yet registered
\* returns the (name, conninfo) of all in-use records, its caller's among
\* them, and a registered name stays registered over later join_node calls:
\* the insert of a later call takes no in-use name out of the registry.
C11_JoinRegistersCaller ==
    [][\A nm \in Names :
          /\ ListStep(nm) => <<nm, ConnInfoOf(nm)>> \in join_rows
          /\ (TolerantInsertStep(nm) /\ am_master) => InUseNames \subseteq InUseNames']_vars

\* C12: whenever the worker's wait ends with a shutdown request pending
\* (got_sigterm set), the worker leaves the loop in that cycle, before the
\* count is read and before any probe, evaluation or actuation.
C12_WakeWithShutdownExits ==
    [][(wpc = "wait" /\ wpc' # "wait" /\ got_sigterm) => wpc' \in Exited]_vars

\* C13: when WaitLatch reports postmaster death the worker returns false at
\* once: a pending reload is not processed, the count is not read, no sweep,
\* evaluation or actuation runs, and the worker does nothing afterwards.
C13_PostmasterDeathExits ==
    [][/\ (wpc # "exit_false" /\ wpc' = "exit_false")
            => /\ wpc = "wait"
               /\ UNCHANGED <<got_sighup, nodes, n_nodes, lockVars, sweep, actuations>>
       /\ wpc = "exit_false"
            => /\ wpc' = "exit_false"
               /\ Worker \notin lockShared'
               /\ UNCHANGED <<got_sighup, got_sigterm, sweep, actuations, hb_i, hb_ret>>]_vars

\* C13 witness: the worker has returned false with a reload still pending
\* and more than one node registered.
C13_Witness == wpc = "exit_false" /\ got_sighup /\ n_nodes > 1

\* Process p holds PgHaCtl->lock, in either mode.
HoldsRegistryLock(p) == lockExcl = p \/ p \in lockShared

\* Process p holds the mutex of some record.
HoldsSpin(p) == \E i \in Slots : spin[i] = p

\* C14: in no reachable state does a process hold a record's spinlock and
\* the registry lock at the same time.
C14_NeverBothLocks == \A p \in Procs : ~(HoldsSpin(p) /\ HoldsRegistryLock(p))

\* The worker's next operation is an LWLockAcquire of the registry lock
\* (in addNode, get_hanode_count or doHeartbeat).
WorkerRequestsLock == wpc \in {"main", "count", "hb_acquire"}

\* C15: no process requests the registry lock while it holds a record's
\* spinlock; the only nesting is a spinlock taken inside the registry lock:
\* a spinlock is held only by the worker, inside its shared hold of the
\* registry lock, at a point where it requests no lock.  (Backends request
\* the registry lock in the SQL functions and never take a spinlock.)
C15_NoRegistryRequestUnderSpin ==
    \A i \in Slots :
        spin[i] # NoProc =>
            /\ spin[i] = Worker
            /\ Worker \in lockShared
            /\ ~WorkerRequestsLock

\* C15 witness: the worker holds a record's spinlock.
C15_Witness == HoldsSpin(Worker)

\* C16: within one cycle the steps are ordered and gated: the sweep starts
\* only from the count read, when the count read is > 1; the evaluation
\* point is reached only from a finished sweep (every slot scanned);
\* changeToAsync runs only at the evaluation point, with in_syncrep set and
\* the evaluator reporting degraded; a new cycle (the next wait) starts only
\* from the loop test, which is reached only when the cycle body is over.
C16_CycleOrdered ==
    [][/\ (wpc' = "hb_acquire" /\ wpc # "hb_acquire") => (wpc = "count" /\ n_nodes > 1)
       /\ (wpc' = "hb_release" /\ wpc # "hb_release") => (wpc = "hb_scan" /\ hb_i >= MaxNodes)
       /\ (wpc' = "check" /\ wpc # "check") => wpc = "hb_release"
       /\ actuations' # actuations => (wpc = "check" /\ in_syncrep /\ ~checkClusterStatus)
       /\ (wpc' = "wait" /\ wpc # "wait") => wpc = "loop"
       /\ (wpc' = "loop" /\ wpc # "loop")
            => \/ wpc = "main"
               \/ wpc = "count" /\ n_nodes <= 1
               \/ wpc = "check"]_vars

\* C16 witness: the worker is at the evaluation point after a sweep in which
\* a probe failed.
C16_Witness == wpc = "check" /\ \E i \in Slots : nodes[i].retry_count > 0

\* C17: once a shutdown request has been raised while the primary's worker is
\* in PgHaMasterLoop, the worker eventually leaves the loop and returns (true; false only if the postmaster
\* dies first), under fair scheduling of the worker and with every probe
\* returning, whatever add_node, del_node and join_node callers do meanwhile.
C17_ShutdownTerminates ==
    (got_sigterm /\ am_master /\ wpc # "main")
        ~> (wpc = "exit_true" \/ wpc = "exit_false")

\* The positions of the worker between doHeartbeat's LWLockAcquire and its
\* LWLockRelease.
InSweep == wpc \in {"hb_scan", "hb_spin", "hb_update", "hb_release"}

\* C18: no process still holds the registry lock after addNode, delNode,
\* get_hanode_count, doHeartbeat or join_node's listing has returned: the
\* lock is held only by the worker, in shared mode, inside doHeartbeat.
C18_LockReleasedOnReturn ==
    /\ lockExcl = NoProc
    /\ lockShared \subseteq {Worker}
    /\ Worker \in lockShared => InSweep

\* C19: delNode never reads or writes a slot outside nodes[]: whenever it
\* does its compaction copy from nodes[n_nodes], n_nodes is an index of the
\* array (0 <= n_nodes < pgha_max_nodes).
C19_DelNodeInBounds ==
    [][\A nm \in Names :
          (RemoveStep(nm) /\ DelFound(nodes, nm)) => InBounds(DelSource(n_nodes))]_vars

\* C20: in every reachable state n_nodes is at least the number of in-use
\* records and at least 0 (so n_nodes > 0 whenever delNode finds a record,
\* and the decrement never takes it below 0).
C20_CountAtLeastInUse ==
    /\ n_nodes >= Cardinality(InUseSlots)
    /\ n_nodes >= 0

\* The slot of the last probe the sweep in progress has made.
LastProbed == sweep.probed[Len(sweep.probed)][1]

\* C21: membership writers and the sweeper exclude each other: in a step
\* taken while the worker holds the registry lock for its sweep, n_nodes and
\* every field of every slot but retry_count stay as they are (no insert or
\* remove takes effect), and retry_count changes only in the slot the sweep
\* has just probed, so the update goes to the record that was probed.
C21_SweepExcludesWriters ==
    [][(Worker \in lockShared) =>
          /\ n_nodes' = n_nodes
          /\ \A i \in Slots :
                /\ [nodes'[i] EXCEPT !.retry_count = nodes[i].retry_count] = nodes[i]
                /\ nodes'[i] # nodes[i] =>
                      /\ wpc = "hb_update"
                      /\ sweep.probed # <<>>
                      /\ LastProbed = i]_vars

\* C21 witness: in mid-sweep, with the lock held, a probed record's counter
\* has been updated while a further slot is still to be scanned.
C21_Witness ==
    /\ Worker \in lockShared
    /\ wpc = "hb_scan"
    /\ hb_i < MaxNodes
    /\ \E i \in Slots : nodes[i].retry_count # sweep.before[i]

\* C22: changeToAsync does its two steps in order and fails fast: the SIGHUP
\* to the postmaster is sent only after the ALTER SYSTEM that clears
\* synchronous_standby_names has succeeded, once per call; when the ALTER
\* SYSTEM fails the call ends in the error with no SIGHUP sent and the
\* setting untouched; when the kill fails the call ends in the error too.
C22_AlterThenReload ==
    [][/\ reloads' # reloads
            => (wpc = "async_kill" /\ alter_ok = "ok" /\ reloads' = reloads + 1)
       /\ alter_ok' = "failed"
            => (wpc' = "exit_error" /\ UNCHANGED <<reloads, sync_standby_names>>)
       /\ (wpc = "async_alter" /\ wpc' # wpc)
            => /\ wpc' = IF alter_ok' = "ok" THEN "async_kill" ELSE "exit_error"
               /\ UNCHANGED <<reloads, sync_standby_names>>
       /\ (wpc = "async_kill" /\ wpc' # wpc)
            => \/ wpc' = "loop" /\ reloads' = reloads + 1 /\ sync_standby_names' = ""
               \/ wpc' = "exit_error" /\ UNCHANGED <<reloads, sync_standby_names>>]_vars

\* C22 witness: a call of changeToAsync has ended in the error after its
\* ALTER SYSTEM failed, with no SIGHUP sent.
C22_Witness ==
    /\ actuations = 1
    /\ wpc = "exit_error"
    /\ alter_ok = "failed"
    /\ reloads = 0
    /\ sync_standby_names = "n1"

====
